---- MODULE Spec2Model ----
(***************************************************************************)
(* Model of src/App.js: the two-tier TTL cache (mem + localStorage), the   *)
(* fetchers geocode / forecast, and the controller (unit toggle, debounced *)
(* search, suggestion click, startup, MutationObserver persistence).       *)
(*                                                                         *)
(* Time is counted in quanta of one sixth of the debounce wait (50 ms), so *)
(* that the 30-day geocode TTL fits TLC's integers.  Coordinates are       *)
(* counted in 1/10000 of a degree, so that the fallback location           *)
(* (19.076, 72.8777) is exact and toFixed(2) is a real rounding.           *)
(* The network answers a forecast request either with a payload of the     *)
(* documented shape or with a failure (rejected fetch / unparsable body).  *)
(***************************************************************************)
EXTENDS Integers, Sequences, FiniteSets, TLC

VARIABLES
  mem,           \* const mem = new Map()            key -> value (only the keys set)
  localStorage,  \* cache envelopes in localStorage  key -> NoItem | {val, exp}
  lsUnits,       \* localStorage item 'units'        NoItem | [val |-> units]
  lsLastCoords,  \* localStorage item 'lastCoords'   NoItem | {lat, lon, place}
  clock,         \* Date.now(), in quanta
  ticks,         \* number of clock advances so far (bounded by MaxTicks)
  state,         \* const state = {units, lat, lon, place}
  view,          \* the rendered DOM: #place, #temp/#daily/#hourly, #meta, #perf, #unitText
  suggest,       \* #suggest: style.display and the buttons it holds
  timer,         \* the debounce closure's t: the pending setTimeout or NoTimer
  loads,         \* loadWeather calls awaiting forecast(), in the order they were started
  lookups,       \* search calls awaiting geocode()'s fetch, in the order they were started
  locating,      \* getCurrentPosition requests not yet answered
  alert,         \* the last alert(...) raised in this page, "" when none
  events,        \* number of user events so far (bounded by MaxEvents)
  completed,     \* history: [lat, lon, place] of every load that rendered its forecast
  hist,          \* cache harness: the last cache operations (at most two)
  promoted,      \* cache harness: key -> value promoted from localStorage, not overwritten since
  inputLog,      \* search log: the times of the input events
  lastInput,     \* search log: the value of the most recent input event
  geoLog         \* search log: the geocode calls, [at, text]

cacheVars == <<mem, localStorage, clock, ticks>>
pageVars  == <<lsUnits, lsLastCoords, state, view, suggest, timer, loads, lookups,
               locating, alert, events, completed>>
harnessVars == <<hist, promoted>>
logVars   == <<inputLog, lastInput, geoLog>>
vars == <<mem, localStorage, lsUnits, lsLastCoords, clock, ticks, state, view, suggest,
          timer, loads, lookups, locating, alert, events, completed, hist, promoted, inputLog, lastInput, geoLog>>

----------------------------------------------------------------------------
(* Bounds of the model *)
MaxTicks == 2
MaxEvents == 2
MaxInputs == 4
MaxQuanta == 12

----------------------------------------------------------------------------
(* Time *)
WAIT == 300                                   \* debounce wait, ms
Quantum == WAIT \div 6                        \* 50 ms
DebounceWait == WAIT \div Quantum
ForecastTTL == (1000 * 60 * 10) \div Quantum
GeoTTL == ((1000 * 60 * 60 * 24) \div Quantum) * 30

----------------------------------------------------------------------------
(* JSON values and localStorage items *)
NoItem == [kind |-> "none"]                   \* getItem(...) === null
JNull  == [kind |-> "null"]                   \* the JavaScript value null
Truthy(v) == v.kind # "null"                  \* if(cached): objects and arrays are truthy

\* JSON.stringify({val, exp: now()+ttl}) as stored, and what JSON.parse gives back
Envelope(val, exp) == [kind |-> "json", val |-> val, exp |-> exp]

----------------------------------------------------------------------------
(* Cache (localStorage + memory) *)

\* mutant: a valid entry of the store is returned but not put into the map
cacheGetNoPromote(m, store, t, key) ==
  IF key \in DOMAIN m
    THEN [val |-> m[key], mem |-> m, lsRead |-> FALSE]
  ELSE IF store[key] = NoItem
    THEN [val |-> JNull, mem |-> m, lsRead |-> TRUE]
  ELSE IF store[key].exp > t
    THEN [val |-> store[key].val, mem |-> m, lsRead |-> TRUE]
  ELSE [val |-> JNull, mem |-> m, lsRead |-> TRUE]

\* function cacheGet(key): the value returned, the map afterwards, and whether
\* localStorage was consulted
cacheGet(m, store, t, key) ==
  IF key \in DOMAIN m
    THEN [val |-> m[key], mem |-> m, lsRead |-> FALSE]
  ELSE IF store[key] = NoItem
    THEN [val |-> JNull, mem |-> m, lsRead |-> TRUE]
  ELSE IF store[key].exp > t
    THEN [val |-> store[key].val,
          mem |-> [k \in DOMAIN m \cup {key} |-> IF k = key THEN store[key].val ELSE m[k]],
          lsRead |-> TRUE]
  ELSE [val |-> JNull, mem |-> m, lsRead |-> TRUE]

\* mutant: the write to the in-memory map keeps an entry that is already there
cacheSetKeepsOld(m, store, t, key, val, ttl) ==
  [mem |-> [k \in DOMAIN m \cup {key} |-> IF k \in DOMAIN m THEN m[k] ELSE val],
   ls  |-> [store EXCEPT ![key] = Envelope(val, t + ttl)]]

\* function cacheSet(key,val,ttl): the map and the store afterwards
cacheSet(m, store, t, key, val, ttl) ==
  [mem |-> [k \in DOMAIN m \cup {key} |-> IF k = key THEN val ELSE m[k]],
   ls  |-> [store EXCEPT ![key] = Envelope(val, t + ttl)]]

----------------------------------------------------------------------------
(* Domain: unit systems, coordinates, places, queries *)
Units == {"metric", "imperial"}
TempUnit(units) == IF units = "imperial" THEN "fahrenheit" ELSE "celsius"   \* the URL's temperature_unit
UnitLabel(units) == IF units = "imperial" THEN "F" ELSE "C"                 \* unitText: degF / degC
WindLabel(units) == IF units = "metric" THEN "m/s" ELSE "mph"               \* renderCurrent's #meta

\* the fallback location of init: 19.076, 72.8777 ('Mumbai, IN')
FallbackLat == 190760
FallbackLon == 728777
FallbackPlace == "Mumbai, IN"

\* candidate places the geocoding service knows: London (51.5074, -0.1278) and
\* a place on the equator (0, 10.0); the name is the button's data-name
London  == [name |-> "London, England, United Kingdom", lat |-> 515074, lon |-> 0 - 1278]
Equator == [name |-> "Equator, GA", lat |-> 0, lon |-> 100000]

\* positions the geolocation API may report: one that rounds to the fallback's
\* cache key (19.0790, 72.8800), one on the prime meridian (51.5, 0)
Positions == { [lat |-> 190790, lon |-> 728800], [lat |-> 515000, lon |-> 0] }

\* values of the search field: a hit in two spellings, the equator, no result, blank
Queries == {"Lond", "lond", "Eq", "zz", " "}
Trim(text) == IF text = " " THEN "" ELSE text                \* text.trim()
\* values typed while lookups are answered: a hit, no result in two spellings, blank
LookupTexts == {"Lond", "zz", "ZZ", " "}
\* q.toLowerCase()
Lower(text) ==
  CASE text = "Lond" -> "lond" [] text = "Eq" -> "eq" [] text = "ZZ" -> "zz" [] OTHER -> text
\* what the geocoding endpoint answers for name=<text> (it matches case-insensitively);
\* `res.results || []`: a response without results gives the empty list
ServerResults(text) ==
  CASE Lower(text) = "lond" -> <<London>>
    [] Lower(text) = "eq"   -> <<Equator>>
    [] OTHER                -> <<>>

AllCoords == { [lat |-> FallbackLat, lon |-> FallbackLon],
               [lat |-> London.lat, lon |-> London.lon],
               [lat |-> Equator.lat, lon |-> Equator.lon] } \cup Positions

\* Number.prototype.toFixed(2): the sign and the magnitude rounded to hundredths
\* (coordinates are in 1/10000 degree); a negative value keeps its "-" even when
\* it rounds to 0.00
toFixed2(x) == IF x < 0 THEN <<"-", ((0 - x) + 50) \div 100>> ELSE <<"", (x + 50) \div 100>>

\* mutant: the cache key leaves out the unit system
ForecastKeyNoUnits(lat, lon, units) == <<"meteo", toFixed2(lat), toFixed2(lon), "metric">>

\* `meteo:${lat.toFixed(2)},${lon.toFixed(2)}:${units}`
ForecastKey(lat, lon, units) == <<"meteo", toFixed2(lat), toFixed2(lon), units>>
\* mutant: the cache key keeps the query's letter case
GeoKeyCaseSensitive(text) == <<"geo", text>>

\* `geo:${q.toLowerCase()}`
GeoKey(text) == <<"geo", Lower(text)>>

AllKeys == { ForecastKey(c.lat, c.lon, u) : c \in AllCoords, u \in Units }
           \cup { GeoKey(text) : text \in Queries \cup LookupTexts }

\* the forecast endpoint's answer for latitude=<lat>&longitude=<lon>&temperature_unit=<tu>
\* received at time t
Payload(lat, lon, units, t) ==
  [kind |-> "forecast", lat |-> lat, lon |-> lon, tu |-> TempUnit(units), at |-> t]
\* a geocode result list as a JSON value
ListValue(items) == [kind |-> "list", items |-> items]

----------------------------------------------------------------------------
(* Fetchers *)

\* async function getJSON(url,key), up to its await: a truthy cached value is
\* returned as {data, cached:true}; otherwise the fetch is issued
getJSON(m, store, t, key) ==
  LET got == cacheGet(m, store, t, key)
  IN  [mem |-> got.mem, cached |-> Truthy(got.val), data |-> got.val, key |-> key]

\* async function forecast(lat,lon,units), up to getJSON's await
forecast(m, store, t, lat, lon, units) ==
  getJSON(m, store, t, ForecastKey(lat, lon, units))

----------------------------------------------------------------------------
(* Rendering *)
NoTimer == [kind |-> "none"]

\* function showSkeleton(): #temp, #meta, #info, #daily, #hourly, #updated
showSkeleton(v) == [v EXCEPT !.body = "skeleton", !.data = JNull, !.windUnit = ""]

\* renderCurrent(state.place||..., data); renderDaily(data); renderHourly(data); #perf
\* (state.place is never empty: init sets it before the first load)
render(v, st, d, cached) ==
  [v EXCEPT !.place = st.place, !.body = "rendered", !.data = d,
            !.windUnit = WindLabel(st.units),
            !.perf = IF cached THEN "cached" ELSE "network"]

\* the JavaScript truth value of state.lat&&state.lon (0 is falsy; after init
\* neither is undefined)
HasCoords(st) == st.lat # 0 /\ st.lon # 0

\* the MutationObserver callback obs: runs after every task that changed the
\* child list of a node under document.body; gives the 'lastCoords' item afterwards
obs(st, item) ==
  IF HasCoords(st)
    THEN [kind |-> "json", lat |-> st.lat, lon |-> st.lon, place |-> st.place]
    ELSE item

----------------------------------------------------------------------------
(* Load *)

\* async function loadWeather(lat,lon), up to its await of forecast(): the state,
\* the view, the map afterwards and the continuation left waiting.  `cached` holds
\* the value of a cache hit (the continuation then runs as a microtask, before any
\* other task), JNull when a network fetch was issued.
loadWeather(st, v, m, store, t, lat, lon) ==
  LET st1 == [st EXCEPT !.lat = lat, !.lon = lon]
      f   == forecast(m, store, t, lat, lon, st1.units)
  IN  [state |-> st1,
       view  |-> showSkeleton(v),
       mem   |-> f.mem,
       entry |-> [lat |-> lat, lon |-> lon, units |-> st1.units,
                  key |-> f.key, t0 |-> t,
                  cached |-> IF f.cached THEN f.data ELSE JNull]]

\* a continuation of a cache hit is waiting: no other task runs before it
MicrotaskPending == \E i \in DOMAIN loads : Truthy(loads[i].cached)

RemoveAt(seq, i) == [j \in 1..(Len(seq) - 1) |-> IF j < i THEN seq[j] ELSE seq[j + 1]]

----------------------------------------------------------------------------
(* Page load: lines 54-56 and init *)

EmptyStore == [k \in AllKeys |-> NoItem]
EmptyMap == [k \in {} |-> JNull]

\* mutant: init takes the fallback location whatever 'lastCoords' holds
bootIgnoresLast(store, unitsItem, lastItem, t) ==
  LET units == IF unitsItem = NoItem THEN "metric" ELSE unitsItem.val
      st0   == [units |-> units, lat |-> FallbackLat, lon |-> FallbackLon,
                place |-> FallbackPlace]
      v0    == [place |-> "", body |-> "empty", data |-> JNull, windUnit |-> "",
                perf |-> "", unitText |-> UnitLabel(units)]
  IN  loadWeather(st0, v0, EmptyMap, store, t, FallbackLat, FallbackLon)

\* the script's top level for a store holding unitsItem and lastItem: state and
\* #unitText from 'units', then init(): the restored or the fallback location is
\* loaded.  The observer is created after init has run, so the skeleton shown by
\* init's loadWeather is not observed.
boot(store, unitsItem, lastItem, t) ==
  LET units == IF unitsItem = NoItem THEN "metric" ELSE unitsItem.val
      place == IF lastItem # NoItem THEN lastItem.place ELSE FallbackPlace
      lat   == IF lastItem # NoItem THEN lastItem.lat ELSE FallbackLat
      lon   == IF lastItem # NoItem THEN lastItem.lon ELSE FallbackLon
      st0   == [units |-> units, lat |-> lat, lon |-> lon, place |-> place]
      v0    == [place |-> "", body |-> "empty", data |-> JNull, windUnit |-> "",
                perf |-> "", unitText |-> UnitLabel(units)]
  IN  loadWeather(st0, v0, EmptyMap, store, t, lat, lon)

Init ==
  LET b == boot(EmptyStore, NoItem, NoItem, 0)
  IN  /\ mem = b.mem
      /\ localStorage = EmptyStore
      /\ lsUnits = NoItem
      /\ lsLastCoords = NoItem
      /\ clock = 0
      /\ ticks = 0
      /\ state = b.state
      /\ view = b.view
      /\ suggest = [display |-> "none", items |-> <<>>]
      /\ timer = NoTimer
      /\ loads = <<b.entry>>
      /\ lookups = <<>>
      /\ locating = 0
      /\ alert = ""
      /\ events = 0
      /\ completed = {}
      /\ hist = <<>>
      /\ promoted = EmptyMap
      /\ inputLog = <<>>
      /\ lastInput = ""
      /\ geoLog = <<>>

\* the user reloads the page: the script starts again over the same localStorage;
\* the map, the timers and the pending continuations of the old page are gone
Reload ==
  /\ ~MicrotaskPending
  /\ events < MaxEvents
  /\ LET b == boot(localStorage, lsUnits, lsLastCoords, clock)
     IN  /\ mem' = b.mem
         /\ state' = b.state
         /\ view' = b.view
         /\ loads' = <<b.entry>>
  /\ suggest' = [display |-> "none", items |-> <<>>]
  /\ timer' = NoTimer
  /\ lookups' = <<>>
  /\ locating' = 0
  /\ alert' = ""
  /\ events' = events + 1
  /\ UNCHANGED <<localStorage, lsUnits, lsLastCoords, clock, ticks, harnessVars, logVars, completed>>

----------------------------------------------------------------------------
(* The forecast continuation of loadWeather *)

\* the awaited forecast() of loads[i] was a cache hit: render from the cache
LoadContinue(i) ==
  /\ Truthy(loads[i].cached)
  /\ view' = render(view, state, loads[i].cached, TRUE)
  /\ lsLastCoords' = obs(state, lsLastCoords)
  /\ loads' = RemoveAt(loads, i)
  /\ completed' = completed \cup {[lat |-> loads[i].lat, lon |-> loads[i].lon, place |-> state.place]}
  /\ UNCHANGED <<cacheVars, lsUnits, state, suggest, timer, lookups, locating, alert,
                 events, harnessVars, logVars>>

\* mutant: the answer of a load is rendered only when no later load has been
\* started since (a generation check)
LoadResolveDropsStale(i) ==
  /\ ~MicrotaskPending
  /\ LET e == loads[i]
         d == Payload(e.lat, e.lon, e.units, clock)
         c == cacheSet(mem, localStorage, clock, e.key, d, ForecastTTL)
     IN  /\ mem' = c.mem
         /\ localStorage' = c.ls
         /\ view' = IF i = Len(loads) THEN render(view, state, d, FALSE) ELSE view
  /\ lsLastCoords' = IF i = Len(loads) THEN obs(state, lsLastCoords) ELSE lsLastCoords
  /\ loads' = RemoveAt(loads, i)
  /\ completed' = completed \cup {[lat |-> loads[i].lat, lon |-> loads[i].lon, place |-> state.place]}
  /\ UNCHANGED <<clock, ticks, lsUnits, state, suggest, timer, lookups, locating, alert,
                 events, harnessVars, logVars>>

\* the fetch of loads[i] answers: getJSON stores the payload for 10 minutes and
\* returns {data, cached:false, ms}; loadWeather renders it
LoadResolve(i) ==
  /\ ~MicrotaskPending
  /\ LET e == loads[i]
         d == Payload(e.lat, e.lon, e.units, clock)
         c == cacheSet(mem, localStorage, clock, e.key, d, ForecastTTL)
     IN  /\ mem' = c.mem
         /\ localStorage' = c.ls
         /\ view' = render(view, state, d, FALSE)
  /\ lsLastCoords' = obs(state, lsLastCoords)
  /\ loads' = RemoveAt(loads, i)
  /\ completed' = completed \cup {[lat |-> loads[i].lat, lon |-> loads[i].lon, place |-> state.place]}
  /\ UNCHANGED <<clock, ticks, lsUnits, state, suggest, timer, lookups, locating, alert,
                 events, harnessVars, logVars>>

\* mutant: a fetch that fails still leaves an entry under its key
LoadFailStores(i) ==
  /\ ~MicrotaskPending
  /\ LET e == loads[i]
         c == cacheSet(mem, localStorage, clock, e.key,
                       Payload(e.lat, e.lon, e.units, clock), ForecastTTL)
     IN  /\ mem' = c.mem
         /\ localStorage' = c.ls
  /\ loads' = RemoveAt(loads, i)
  /\ UNCHANGED <<clock, ticks, lsUnits, lsLastCoords, state, view, suggest, timer, lookups,
                 locating, alert, events, harnessVars, logVars, completed>>

\* the fetch of loads[i] fails (network error or unparsable body): forecast()
\* rejects, loadWeather's promise rejects, nothing is stored or rendered
LoadFail(i) ==
  /\ ~MicrotaskPending
  /\ loads' = RemoveAt(loads, i)
  /\ UNCHANGED <<cacheVars, lsUnits, lsLastCoords, state, view, suggest, timer, lookups,
                 locating, alert, events, harnessVars, logVars, completed>>

----------------------------------------------------------------------------
(* Unit toggle *)

\* unitToggle 'change': setUnits(unitToggle.checked?'imperial':'metric'); the
\* checkbox starts in step with state.units, so every change flips the units.
\* Setting #unitText changes the child list, so the observer runs afterwards.
ToggleUnits ==
  /\ ~MicrotaskPending
  /\ events < MaxEvents
  /\ LET units == IF state.units = "metric" THEN "imperial" ELSE "metric"
         st1   == [state EXCEPT !.units = units]
         v1    == [view EXCEPT !.unitText = UnitLabel(units)]
         l     == loadWeather(st1, v1, mem, localStorage, clock, st1.lat, st1.lon)
     IN  /\ lsUnits' = [kind |-> "json", val |-> units]
         /\ IF HasCoords(st1)
              THEN /\ state' = l.state
                   /\ view' = l.view
                   /\ mem' = l.mem
                   /\ loads' = Append(loads, l.entry)
              ELSE /\ state' = st1
                   /\ view' = v1
                   /\ UNCHANGED <<mem, loads>>
         /\ lsLastCoords' = obs(st1, lsLastCoords)
  /\ events' = events + 1
  /\ UNCHANGED <<localStorage, clock, ticks, suggest, timer, lookups, locating, alert,
                 harnessVars, logVars, completed>>

----------------------------------------------------------------------------
(* Search + geocoding *)

\* mutant: a new input event does not restart a timeout that is pending
InputStepNoRestart(text) ==
  /\ ~MicrotaskPending
  /\ timer' = IF timer = NoTimer
                THEN [kind |-> "timeout", deadline |-> clock + DebounceWait, text |-> text]
                ELSE [timer EXCEPT !.text = text]
  /\ UNCHANGED <<cacheVars, lsUnits, lsLastCoords, state, view, suggest, loads, lookups,
                 locating, alert, harnessVars, completed>>

\* q 'input': the debounced search(e.target.value): clearTimeout(t);
\* t = setTimeout(() => fn(text), wait)
InputStep(text) ==
  /\ ~MicrotaskPending
  /\ timer' = [kind |-> "timeout", deadline |-> clock + DebounceWait, text |-> text]
  /\ UNCHANGED <<cacheVars, lsUnits, lsLastCoords, state, view, suggest, loads, lookups,
                 locating, alert, harnessVars, completed>>

\* what search does with the result list of geocode(text): the #suggest afterwards
\* (one button per result, carrying data-lat, data-lon and data-name)
showResults(sug, results) ==
  IF Len(results.items) = 0
    THEN [sug EXCEPT !.display = "none"]
    ELSE [display |-> "block", items |-> results.items]

\* mutant: search calls geocode without looking at text.trim()
TimerStepGeocodesBlank ==
  /\ ~MicrotaskPending
  /\ timer # NoTimer
  /\ clock >= timer.deadline
  /\ timer' = NoTimer
  /\ LET text == timer.text
         got  == cacheGet(mem, localStorage, clock, GeoKey(text))
     IN  IF Truthy(got.val)
           THEN /\ mem' = got.mem
                /\ suggest' = showResults(suggest, got.val)
                /\ lsLastCoords' = IF Len(got.val.items) = 0 THEN lsLastCoords
                                   ELSE obs(state, lsLastCoords)
                /\ UNCHANGED lookups
         ELSE /\ mem' = got.mem
              /\ lookups' = Append(lookups, [text |-> text, key |-> GeoKey(text)])
              /\ UNCHANGED <<suggest, lsLastCoords>>
  /\ UNCHANGED <<localStorage, clock, ticks, lsUnits, state, view, loads, locating, alert,
                 events, harnessVars, completed>>

\* the timeout fires: the async function given to debounce runs with the text of
\* the last input event.  A blank text hides the list.  Otherwise geocode(text):
\* a truthy cached list is returned at once and shown; else the lookup is fetched.
TimerStep ==
  /\ ~MicrotaskPending
  /\ timer # NoTimer
  /\ clock >= timer.deadline
  /\ timer' = NoTimer
  /\ LET text == timer.text
         got  == cacheGet(mem, localStorage, clock, GeoKey(text))
     IN  IF Trim(text) = ""
           THEN /\ suggest' = [suggest EXCEPT !.display = "none"]
                /\ UNCHANGED <<mem, lookups, lsLastCoords>>
         ELSE IF Truthy(got.val)
           THEN /\ mem' = got.mem
                /\ suggest' = showResults(suggest, got.val)
                /\ lsLastCoords' = IF Len(got.val.items) = 0 THEN lsLastCoords
                                   ELSE obs(state, lsLastCoords)
                /\ UNCHANGED lookups
         ELSE /\ mem' = got.mem
              /\ lookups' = Append(lookups, [text |-> text, key |-> GeoKey(text)])
              /\ UNCHANGED <<suggest, lsLastCoords>>
  /\ UNCHANGED <<localStorage, clock, ticks, lsUnits, state, view, loads, locating, alert,
                 events, harnessVars, completed>>

\* the lookup lookups[i] answers: geocode stores `res.results || []` for 30 days
\* and returns it; search shows it (a non-empty list rewrites #suggest's children,
\* so the observer runs)
GeocodeResolve(i) ==
  /\ ~MicrotaskPending
  /\ LET e == lookups[i]
         d == ListValue(ServerResults(e.text))
         c == cacheSet(mem, localStorage, clock, e.key, d, GeoTTL)
     IN  /\ mem' = c.mem
         /\ localStorage' = c.ls
         /\ suggest' = showResults(suggest, d)
         /\ lsLastCoords' = IF Len(d.items) = 0 THEN lsLastCoords
                            ELSE obs(state, lsLastCoords)
  /\ lookups' = RemoveAt(lookups, i)
  /\ UNCHANGED <<clock, ticks, lsUnits, state, view, timer, loads, locating, alert, events,
                 harnessVars, logVars, completed>>

\* the lookup lookups[i] fails: geocode rejects, search's catch{} swallows it
GeocodeFail(i) ==
  /\ ~MicrotaskPending
  /\ lookups' = RemoveAt(lookups, i)
  /\ UNCHANGED <<cacheVars, lsUnits, lsLastCoords, state, view, suggest, timer, loads,
                 locating, alert, events, harnessVars, logVars, completed>>

\* #suggest 'click' on the button b of the visible list
SuggestClick(b) ==
  /\ ~MicrotaskPending
  /\ events < MaxEvents
  /\ suggest.display = "block"
  /\ b \in DOMAIN suggest.items
  /\ LET r   == suggest.items[b]
         st1 == [state EXCEPT !.place = r.name]
         l   == loadWeather(st1, view, mem, localStorage, clock, r.lat, r.lon)
     IN  /\ state' = l.state
         /\ view' = l.view
         /\ mem' = l.mem
         /\ loads' = Append(loads, l.entry)
         /\ lsLastCoords' = obs(l.state, lsLastCoords)
  /\ suggest' = [suggest EXCEPT !.display = "none"]
  /\ events' = events + 1
  /\ UNCHANGED <<localStorage, clock, ticks, lsUnits, timer, lookups, locating, alert,
                 harnessVars, logVars, completed>>

Input(text) ==
  /\ events < MaxEvents
  /\ InputStep(text)
  /\ events' = events + 1
  /\ UNCHANGED logVars

TimerFire == TimerStep /\ UNCHANGED logVars

----------------------------------------------------------------------------
(* Geolocation *)

\* useLocationBtn 'click' where navigator has no geolocation: alert and return
UseLocationUnsupported ==
  /\ ~MicrotaskPending
  /\ events < MaxEvents
  /\ alert' = "Geolocation not supported"
  /\ events' = events + 1
  /\ UNCHANGED <<cacheVars, lsUnits, lsLastCoords, state, view, suggest, timer, loads,
                 lookups, locating, harnessVars, logVars, completed>>

\* useLocationBtn 'click': navigator.geolocation.getCurrentPosition(...)
UseLocation ==
  /\ ~MicrotaskPending
  /\ events < MaxEvents
  /\ locating' = locating + 1
  /\ events' = events + 1
  /\ UNCHANGED <<cacheVars, lsUnits, lsLastCoords, state, view, suggest, timer, loads,
                 lookups, alert, harnessVars, logVars, completed>>

\* mutant: the success callback loads the position but keeps the place name
LocationFixKeepsPlace(pos) ==
  /\ ~MicrotaskPending
  /\ locating > 0
  /\ locating' = locating - 1
  /\ LET l == loadWeather(state, view, mem, localStorage, clock, pos.lat, pos.lon)
     IN  /\ state' = l.state
         /\ view' = l.view
         /\ mem' = l.mem
         /\ loads' = Append(loads, l.entry)
         /\ lsLastCoords' = obs(l.state, lsLastCoords)
  /\ UNCHANGED <<localStorage, clock, ticks, lsUnits, suggest, timer, lookups, alert,
                 events, harnessVars, logVars, completed>>

\* the success callback: state.place='Your location'; loadWeather(lat,lon)
LocationFix(pos) ==
  /\ ~MicrotaskPending
  /\ locating > 0
  /\ locating' = locating - 1
  /\ LET st1 == [state EXCEPT !.place = "Your location"]
         l   == loadWeather(st1, view, mem, localStorage, clock, pos.lat, pos.lon)
     IN  /\ state' = l.state
         /\ view' = l.view
         /\ mem' = l.mem
         /\ loads' = Append(loads, l.entry)
         /\ lsLastCoords' = obs(l.state, lsLastCoords)
  /\ UNCHANGED <<localStorage, clock, ticks, lsUnits, suggest, timer, lookups, alert,
                 events, harnessVars, logVars, completed>>

\* the error callback (denied, unavailable, 8 s timeout): alert
LocationError ==
  /\ ~MicrotaskPending
  /\ locating > 0
  /\ locating' = locating - 1
  /\ alert' = "Location error"
  /\ UNCHANGED <<cacheVars, lsUnits, lsLastCoords, state, view, suggest, timer, loads,
                 lookups, events, harnessVars, logVars, completed>>

----------------------------------------------------------------------------
(* Time *)

\* the clock advances by d quanta; a pending timeout fires when it is due, so time
\* does not pass beyond its deadline
Tick(d) ==
  /\ ~MicrotaskPending
  /\ ticks < MaxTicks
  /\ IF timer = NoTimer THEN TRUE ELSE clock + d <= timer.deadline
  /\ clock' = clock + d
  /\ ticks' = ticks + 1
  /\ UNCHANGED <<mem, localStorage, pageVars, harnessVars, logVars>>

PageSteps == {DebounceWait, ForecastTTL}

----------------------------------------------------------------------------
(* The page *)
Next ==
  \/ Reload
  \/ ToggleUnits
  \/ \E text \in Queries : Input(text)
  \/ TimerFire
  \/ \E i \in DOMAIN lookups : GeocodeResolve(i)
  \/ \E i \in DOMAIN lookups : GeocodeFail(i)
  \/ \E b \in DOMAIN suggest.items : SuggestClick(b)
  \/ UseLocationUnsupported
  \/ UseLocation
  \/ \E pos \in Positions : LocationFix(pos)
  \/ LocationError
  \/ \E i \in DOMAIN loads : LoadContinue(i)
  \/ \E i \in DOMAIN loads : LoadResolve(i)
  \/ \E i \in DOMAIN loads : LoadFail(i)
  \/ \E d \in PageSteps : Tick(d)

Spec == Init /\ [][Next]_vars

----------------------------------------------------------------------------
(* The cache on its own: cacheGet and cacheSet called with any key, value and *)
(* ttl, the clock advancing, the page reloading (the map starts empty again). *)

HarnessKeys == {GeoKey("Lond"), ForecastKey(FallbackLat, FallbackLon, "metric")}
HarnessValues == {JNull, ListValue(<<London>>),
                  Payload(FallbackLat, FallbackLon, "metric", 0)}
HarnessTTLs == {1, ForecastTTL}
HarnessSteps == {1, ForecastTTL}

Last(seq) == seq[Len(seq)]
\* the window of the last two cache calls made with nothing else in between
Push(h, op) == IF Len(h) < 2 THEN Append(h, op) ELSE <<h[2], op>>
Op(name, key, val, lsRead, prior) ==
  [op |-> name, key |-> key, val |-> val, lsRead |-> lsRead, prior |-> prior]

\* cacheSet(key, val, ttl); `prior` records that the map or the store held another
\* value for the key
HarnessSet(key, val, ttl) ==
  /\ LET c == cacheSet(mem, localStorage, clock, key, val, ttl)
     IN  /\ mem' = c.mem
         /\ localStorage' = c.ls
  /\ hist' = Push(hist, Op("set", key, val, FALSE,
                           \/ (key \in DOMAIN mem /\ mem[key] # val)
                           \/ (localStorage[key] # NoItem /\ localStorage[key].val # val)))
  /\ promoted' = [k \in DOMAIN promoted \ {key} |-> promoted[k]]
  /\ UNCHANGED <<clock, ticks, pageVars, logVars>>

\* cacheGet(key); `prior` records that this call promoted the value from the store
HarnessGet(key) ==
  /\ LET g == cacheGet(mem, localStorage, clock, key)
         promo == key \notin DOMAIN mem /\ key \in DOMAIN g.mem
     IN  /\ mem' = g.mem
         /\ hist' = Push(hist, Op("get", key, g.val, g.lsRead, promo))
         /\ promoted' = IF promo
                          THEN [k \in DOMAIN promoted \cup {key} |->
                                  IF k = key THEN g.val ELSE promoted[k]]
                          ELSE promoted
  /\ UNCHANGED <<localStorage, clock, ticks, pageVars, logVars>>

\* a reload: the new page's map is empty, the store is kept
HarnessReload ==
  /\ mem # EmptyMap
  /\ mem' = EmptyMap
  /\ promoted' = EmptyMap
  /\ hist' = <<>>
  /\ UNCHANGED <<localStorage, clock, ticks, pageVars, logVars>>

HarnessTick(d) ==
  /\ ticks < MaxTicks
  /\ clock' = clock + d
  /\ ticks' = ticks + 1
  /\ hist' = <<>>
  /\ UNCHANGED <<mem, localStorage, promoted, pageVars, logVars>>

NextCache ==
  \/ \E key \in HarnessKeys, val \in HarnessValues, ttl \in HarnessTTLs : HarnessSet(key, val, ttl)
  \/ \E key \in HarnessKeys : HarnessGet(key)
  \/ HarnessReload
  \/ \E d \in HarnessSteps : HarnessTick(d)

SpecCache == Init /\ [][NextCache]_vars

----------------------------------------------------------------------------
(* The debounced search on its own, with the input events and the geocode     *)
(* calls logged and the clock advancing one quantum (50 ms) at a time.        *)

SearchTexts == {"Lond", "Eq", " "}

LoggedInput(text) ==
  /\ Len(inputLog) < MaxInputs
  /\ InputStep(text)
  /\ inputLog' = Append(inputLog, clock)
  /\ lastInput' = text
  /\ UNCHANGED <<events, geoLog>>

\* search calls geocode(text) unless the text is blank
LoggedTimerFire ==
  /\ TimerStep
  /\ geoLog' = IF Trim(timer.text) = "" THEN geoLog
               ELSE Append(geoLog, [at |-> clock, text |-> timer.text])
  /\ UNCHANGED <<inputLog, lastInput>>

TickQuantum ==
  /\ clock < MaxQuanta
  /\ IF timer = NoTimer THEN TRUE ELSE clock + 1 <= timer.deadline
  /\ clock' = clock + 1
  /\ UNCHANGED <<mem, localStorage, ticks, pageVars, harnessVars, logVars>>

NextSearch ==
  \/ \E text \in SearchTexts : LoggedInput(text)
  \/ LoggedTimerFire
  \/ TickQuantum

SpecSearch == Init /\ [][NextSearch]_vars

----------------------------------------------------------------------------
(* The debounced search with its lookups: the input events and the geocode    *)
(* calls logged, the clock advancing one quantum at a time, every lookup that *)
(* was fetched answering (at any later time, in any order).                   *)

NextLookup ==
  \/ \E text \in LookupTexts : LoggedInput(text)
  \/ LoggedTimerFire
  \/ \E i \in DOMAIN lookups : GeocodeResolve(i)
  \/ TickQuantum

SpecLookup == Init /\ [][NextLookup]_vars

----------------------------------------------------------------------------
(* Claims about the cache, checked under SpecCache *)

\* C1: once the clock has advanced past the expiry written by the last
\* cacheSet(K,V,ttl), a cacheGet(K) returns absent (null), in the same session
\* and after a reload.
C1_ExpiredIsAbsent ==
  (/\ hist # <<>>
   /\ Last(hist).op = "get"
   /\ localStorage[Last(hist).key] # NoItem
   /\ clock > localStorage[Last(hist).key].exp)
  => Last(hist).val = JNull

\* C2: a cacheGet(K) made immediately after cacheSet(K,V,ttl), ttl > 0, returns V,
\* whatever the map or the store held for K before.
C2_GetAfterSet ==
  (/\ Len(hist) = 2
   /\ hist[1].op = "set"
   /\ hist[2].op = "get"
   /\ hist[2].key = hist[1].key)
  => hist[2].val = hist[1].val

\* C2's case: the set overwrote another value and the get returned the new one
C2_Witness ==
  /\ Len(hist) = 2
  /\ hist[1].op = "set" /\ hist[1].prior
  /\ hist[2].op = "get" /\ hist[2].key = hist[1].key
  /\ Truthy(hist[2].val)

\* C8: a cacheGet of a key that is not in the map while the store holds an
\* unexpired entry returns the entry's value and puts it into the map, leaving the
\* store as it is; every later cacheGet of the key (until it is set again or the
\* page reloads) returns that value without reading the store.
C8_Promotion ==
  [][\A key \in HarnessKeys :
       HarnessGet(key) =>
         /\ (/\ key \notin DOMAIN mem
             /\ localStorage[key] # NoItem
             /\ localStorage[key].exp > clock)
            => /\ Last(hist').val = localStorage[key].val
               /\ key \in DOMAIN mem'
               /\ mem'[key] = localStorage[key].val
               /\ localStorage' = localStorage
         /\ key \in DOMAIN promoted
            => /\ Last(hist').val = promoted[key]
               /\ ~Last(hist').lsRead
               /\ mem' = mem
               /\ localStorage' = localStorage]_vars

\* C8's case: a get that promoted a truthy value, followed by a get served from
\* the map
C8_Witness ==
  /\ Len(hist) = 2
  /\ hist[1].op = "get" /\ hist[1].prior /\ Truthy(hist[1].val)
  /\ hist[2].op = "get" /\ hist[2].key = hist[1].key
  /\ ~hist[2].lsRead
  /\ hist[2].val = hist[1].val

----------------------------------------------------------------------------
(* The unit toggle on its own: the page after the forecast of init's load has *)
(* been fetched and rendered (metric, the fallback location), the user only   *)
(* toggling the units, every forecast fetch answering.                        *)

\* the state reached from Init by LoadResolve(1) at time 0
InitLoaded ==
  LET b == boot(EmptyStore, NoItem, NoItem, 0)
      d == Payload(b.entry.lat, b.entry.lon, b.entry.units, 0)
      c == cacheSet(b.mem, EmptyStore, 0, b.entry.key, d, ForecastTTL)
  IN  /\ mem = c.mem
      /\ localStorage = c.ls
      /\ lsUnits = NoItem
      /\ lsLastCoords = obs(b.state, NoItem)
      /\ clock = 0
      /\ ticks = 0
      /\ state = b.state
      /\ view = render(b.view, b.state, d, FALSE)
      /\ suggest = [display |-> "none", items |-> <<>>]
      /\ timer = NoTimer
      /\ loads = <<>>
      /\ lookups = <<>>
      /\ locating = 0
      /\ alert = ""
      /\ events = 0
      /\ completed = {[lat |-> b.entry.lat, lon |-> b.entry.lon, place |-> b.state.place]}
      /\ hist = <<>>
      /\ promoted = EmptyMap
      /\ inputLog = <<>>
      /\ lastInput = ""
      /\ geoLog = <<>>

NextToggle ==
  \/ ToggleUnits
  \/ \E i \in DOMAIN loads : LoadContinue(i)
  \/ \E i \in DOMAIN loads : LoadResolve(i)
  \/ \E d \in PageSteps : Tick(d)

SpecToggle == InitLoaded /\ [][NextToggle]_vars

----------------------------------------------------------------------------
(* Claims about the page *)

\* C3: the 'lastCoords' item only ever holds the coordinates and the place of a
\* load that has completed successfully (rendered its forecast).
C3_LastCoordsOfCompletedLoad ==
  lsLastCoords # NoItem
  => [lat |-> lsLastCoords.lat, lon |-> lsLastCoords.lon, place |-> lsLastCoords.place]
       \in completed

\* C4: after a load for the session's coordinates (lat, lon) completes
\* successfully with place name P, 'lastCoords' holds {lat, lon, place: P}, also
\* when lat or lon is 0.
C4_PersistedAfterLoad ==
  [][\A i \in DOMAIN loads :
       ((LoadResolve(i) \/ LoadContinue(i))
        /\ loads[i].lat = state.lat /\ loads[i].lon = state.lon)
       => lsLastCoords' = [kind |-> "json", lat |-> loads[i].lat, lon |-> loads[i].lon,
                           place |-> state.place]]_vars

\* C5: every unit toggle persists the new unit system under 'units' and starts
\* exactly one forecast load, for the session's coordinates under the new unit
\* system, also when the latitude or the longitude is 0 (after init the session
\* always has coordinates).
C5_ToggleReloads ==
  [][ToggleUnits =>
       /\ state'.units # state.units
       /\ lsUnits' = [kind |-> "json", val |-> state'.units]
       /\ Len(loads') = Len(loads) + 1
       /\ Last(loads').lat = state.lat
       /\ Last(loads').lon = state.lon
       /\ Last(loads').units = state'.units]_vars

\* C6: after the toggles metric -> imperial -> metric, once every forecast call
\* has settled (each one answered, in any order), the rendered forecast is the
\* metric payload and the unit label shows metric.
C6_RoundTripShowsMetric ==
  (events = 2 /\ loads = <<>>)
  => /\ state.units = "metric"
     /\ view.unitText = UnitLabel("metric")
     /\ view.body = "rendered"
     /\ view.data.tu = TempUnit("metric")

\* the value of a cache hit is what is stored under the call's key, a forecast
\* payload for the same rounded coordinates and the same unit system
C9_HitIsStoredPayload(e) ==
  /\ localStorage[e.key] # NoItem
  /\ e.cached = localStorage[e.key].val
  /\ e.cached.kind = "forecast"
  /\ toFixed2(e.cached.lat) = toFixed2(e.lat)
  /\ toFixed2(e.cached.lon) = toFixed2(e.lon)
  /\ e.cached.tu = TempUnit(e.units)

\* C9: forecast returns cached=true only with the payload that a completed
\* forecast call stored under the same key, i.e. fetched for coordinates that round
\* to the same 2 decimals and under the same unit system as this call, and then
\* nothing is fetched or stored; otherwise the call is one fetch, which (when it
\* answers) returns cached=false with a latency and the payload of this call's
\* coordinates and unit system.
C9_CachedOnlyFromSameKey ==
  /\ [](\A i \in DOMAIN loads : Truthy(loads[i].cached) => C9_HitIsStoredPayload(loads[i]))
  /\ [][\A i \in DOMAIN loads :
          /\ LoadContinue(i) =>
               /\ C9_HitIsStoredPayload(loads[i])
               /\ view'.perf = "cached" /\ view'.data = loads[i].cached
               /\ mem' = mem /\ localStorage' = localStorage
          /\ LoadResolve(i) =>
               /\ ~Truthy(loads[i].cached)
               /\ view'.perf = "network"
               /\ view'.data = Payload(loads[i].lat, loads[i].lon, loads[i].units, clock)
               /\ localStorage'[loads[i].key].val = view'.data]_vars

\* C9's case: a call under imperial served from the cache, for coordinates other
\* than those the payload was fetched for
C9_Witness ==
  \E i \in DOMAIN loads :
    /\ Truthy(loads[i].cached)
    /\ loads[i].units = "imperial"
    /\ loads[i].cached.lat # loads[i].lat

\* C10: when a geocode lookup fails, the suggestion list is hidden afterwards.
C10_FailureHidesList ==
  [][\A i \in DOMAIN lookups : GeocodeFail(i) => suggest'.display = "none"]_vars

----------------------------------------------------------------------------
(* Claims about the debounce, checked under SpecSearch *)

\* the input events of the scenario: t = 0, 50, 100 and 300 ms, none afterwards
ScenarioInputs ==
  inputLog = <<0 \div Quantum, 50 \div Quantum, 100 \div Quantum, 300 \div Quantum>>

\* C7 as stated: with input events at 0, 50, 100 and 300 ms (the last value not
\* blank) exactly one geocode call is issued, at t = 400 ms, with the last value.
C7_OneCallAt400 ==
  (ScenarioInputs /\ Trim(lastInput) # "" /\ clock > 400 \div Quantum)
  => geoLog = <<[at |-> 400 \div Quantum, text |-> lastInput]>>

\* C7 amended: with input events at 0, 50, 100 and 300 ms no geocode call is
\* issued while the timeout set at 300 ms is pending; it fires at t = 600 ms and
\* then exactly one call has been issued, at 600 ms, with the last value (none
\* when that value is blank).
C7_OneCallAt600 ==
  ScenarioInputs =>
    IF timer # NoTimer
      THEN /\ geoLog = <<>>
           /\ timer.deadline = (300 + WAIT) \div Quantum
           /\ timer.text = lastInput
           /\ clock <= timer.deadline
      ELSE geoLog = IF Trim(lastInput) = "" THEN <<>>
                    ELSE <<[at |-> (300 + WAIT) \div Quantum, text |-> lastInput]>>

\* C7's case: the four input events happened and the one call was issued
C7_Witness ==
  /\ ScenarioInputs
  /\ timer = NoTimer
  /\ Len(geoLog) = 1

----------------------------------------------------------------------------
(* Claims about geocode's cache, checked under SpecLookup *)

\* C11: a lookup that yields no results does not fail: geocode returns the empty
\* list (search hides the suggestions) and stores it in the map and in the store
\* for 30 days; a later geocode for a query that differs from it only in letter
\* case, made before that expiry, returns the stored list without fetching.
C11_EmptyListIsCached ==
  /\ [][\A i \in DOMAIN lookups :
          (GeocodeResolve(i) /\ ServerResults(lookups[i].text) = <<>>)
          => /\ localStorage'[lookups[i].key] = Envelope(ListValue(<<>>), clock + GeoTTL)
             /\ lookups[i].key \in DOMAIN mem'
             /\ mem'[lookups[i].key] = ListValue(<<>>)
             /\ suggest'.display = "none"]_vars
  /\ [][\A q \in LookupTexts :
          (/\ LoggedTimerFire
           /\ Trim(timer.text) # ""
           /\ Lower(q) = Lower(timer.text)
           /\ localStorage[GeoKey(q)] # NoItem
           /\ localStorage[GeoKey(q)].val = ListValue(<<>>)
           /\ localStorage[GeoKey(q)].exp > clock)
          => /\ lookups' = lookups
             /\ localStorage' = localStorage
             /\ suggest'.display = "none"]_vars

\* C11's case: geocode("zz") fetched and stored the empty list, and the later
\* geocode("ZZ") fetched nothing (the entry still carries the first call's expiry)
C11_Witness ==
  /\ Len(geoLog) = 2
  /\ geoLog[1].text = "zz"
  /\ geoLog[2].text = "ZZ"
  /\ lookups = <<>>
  /\ localStorage[GeoKey("zz")] = Envelope(ListValue(<<>>), geoLog[1].at + GeoTTL)

----------------------------------------------------------------------------
(* Claims about geolocation and startup, checked under Spec *)

\* C12: a click on 'use my location' leaves one request waiting (or, without the
\* capability, raises an alert at once), and each request ends in exactly one of
\* two ways: a fix starts one load for the reported position with the place name
\* 'Your location' and raises no alert; an error (denial, timeout) raises an
\* alert, starts no load and leaves the session's coordinates, place name and the
\* rendered view as they were.
C12_LocationOutcomes ==
  /\ [][UseLocation =>
          /\ locating' = locating + 1
          /\ loads' = loads /\ state' = state /\ view' = view /\ alert' = alert]_vars
  /\ [][\A pos \in Positions :
          LocationFix(pos) =>
            /\ locating' = locating - 1
            /\ Len(loads') = Len(loads) + 1
            /\ Last(loads').lat = pos.lat
            /\ Last(loads').lon = pos.lon
            /\ state'.lat = pos.lat
            /\ state'.lon = pos.lon
            /\ state'.place = "Your location"
            /\ view'.body = "skeleton"
            /\ alert' = alert]_vars
  /\ [][LocationError =>
          /\ locating' = locating - 1
          /\ alert' = "Location error"
          /\ loads' = loads /\ state' = state /\ view' = view
          /\ mem' = mem /\ localStorage' = localStorage
          /\ lsLastCoords' = lsLastCoords]_vars
  /\ [][UseLocationUnsupported =>
          /\ locating' = locating
          /\ alert' = "Geolocation not supported"
          /\ loads' = loads /\ state' = state /\ view' = view
          /\ mem' = mem /\ localStorage' = localStorage
          /\ lsLastCoords' = lsLastCoords]_vars

\* C12's case: of two clicks one ended in a fix (its load is the last one started,
\* the place name is 'Your location') and the other in an error (the alert)
C12_Witness ==
  /\ state.place = "Your location"
  /\ [lat |-> state.lat, lon |-> state.lon] \in Positions
  /\ loads # <<>>
  /\ Last(loads).lat = state.lat
  /\ Last(loads).lon = state.lon
  /\ alert = "Location error"
  /\ locating = 0

\* C13: startup starts exactly one load: a cold start (no 'lastCoords') loads the
\* fallback location (19.076, 72.8777) as 'Mumbai, IN'; a start over a store that
\* holds 'lastCoords' loads its coordinates with its place; the skeleton is shown
\* at once, and a populated render only ever replaces a skeleton.
C13_StartupLoadsOnce ==
  /\ (/\ Len(loads) = 1
      /\ loads[1].lat = FallbackLat
      /\ loads[1].lon = FallbackLon
      /\ state.lat = FallbackLat
      /\ state.lon = FallbackLon
      /\ state.place = FallbackPlace
      /\ view.body = "skeleton")
  /\ [][Reload =>
          /\ Len(loads') = 1
          /\ loads'[1].lat = state'.lat
          /\ loads'[1].lon = state'.lon
          /\ view'.body = "skeleton"
          /\ IF lsLastCoords # NoItem
               THEN /\ state'.lat = lsLastCoords.lat
                    /\ state'.lon = lsLastCoords.lon
                    /\ state'.place = lsLastCoords.place
               ELSE /\ state'.lat = FallbackLat
                    /\ state'.lon = FallbackLon
                    /\ state'.place = FallbackPlace]_vars
  /\ [][(view.body # "rendered" /\ view'.body = "rendered") => view.body = "skeleton"]_vars

\* C13's case: the page has started over a store whose 'lastCoords' holds a
\* geolocation fix: nothing has been rendered yet, the skeleton is shown and the
\* one load (here served from the store's forecast entry) is for the restored
\* coordinates and place
C13_Witness ==
  /\ view.place = ""
  /\ view.body = "skeleton"
  /\ Len(loads) = 1
  /\ Truthy(loads[1].cached)
  /\ lsLastCoords # NoItem
  /\ loads[1].lat = lsLastCoords.lat
  /\ loads[1].lat # FallbackLat
  /\ state.place = "Your location"

----------------------------------------------------------------------------
(* Claims about the load cycle, checked under Spec *)

\* C14: once the forecast fetch of the only load in flight has settled, the view
\* has left the loading state: with no load in flight the skeleton ('Loading...')
\* is not shown, whether the fetch succeeded or failed.
C14_SkeletonLeftWhenSettled ==
  loads = <<>> => view.body # "skeleton"

----------------------------------------------------------------------------
(* Claims about the debounced search and its lookups, checked under SpecLookup *)

\* C16: for every sequence of input events: an input event leaves exactly one
\* timeout pending, its own (300 ms from now, carrying its value), whatever was
\* pending before; search runs (and the geocode log grows) only when a timeout
\* fires, which is 300 ms after the most recent input event and with that event's
\* value; when that value is empty or whitespace-only nothing is geocoded (no
\* call, no lookup, the cache untouched) and the suggestion list is hidden.
C16_DebounceInGeneral ==
  /\ [](timer # NoTimer =>
          /\ inputLog # <<>>
          /\ timer.deadline = Last(inputLog) + DebounceWait
          /\ timer.text = lastInput
          /\ clock <= timer.deadline)
  /\ [][\A text \in LookupTexts :
          LoggedInput(text) =>
            /\ timer' = [kind |-> "timeout", deadline |-> clock + DebounceWait, text |-> text]
            /\ geoLog' = geoLog
            /\ lookups' = lookups]_vars
  /\ [][(geoLog' # geoLog \/ lookups' # lookups \/ suggest' # suggest) =>
          (LoggedTimerFire \/ \E i \in DOMAIN lookups : GeocodeResolve(i))]_vars
  /\ [][LoggedTimerFire =>
          /\ clock = Last(inputLog) + DebounceWait
          /\ timer.text = lastInput
          /\ timer' = NoTimer
          /\ IF Trim(lastInput) = ""
               THEN /\ geoLog' = geoLog
                    /\ lookups' = lookups
                    /\ mem' = mem
                    /\ localStorage' = localStorage
                    /\ suggest'.display = "none"
               ELSE geoLog' = Append(geoLog, [at |-> clock, text |-> lastInput])]_vars

\* C16's case: an input event cancelled a pending timeout, the one call geocode
\* got ("Lond") made the list visible, and the timeout of a later blank input has
\* fired and hidden it, with no further call
C16_Witness ==
  /\ \E k \in 1..(Len(inputLog) - 1) : inputLog[k + 1] < inputLog[k] + DebounceWait
  /\ timer = NoTimer
  /\ lastInput = " "
  /\ Len(geoLog) = 1
  /\ lookups = <<>>
  /\ suggest.items # <<>>
  /\ suggest.display = "none"

\* what getJSON would find for the key of the load e in the cache (m, store) at
\* time t: TRUE when the load would be served from the cache, FALSE when it would
\* issue a network request
ServedFromCache(m, store, t, e) == forecast(m, store, t, e.lat, e.lon, e.units).cached

\* C17 as stated: when the forecast fetch of a load fails, the map and the store
\* are left as they were and, therefore, the next load for the same key issues a
\* new network request.
C17_FailureThenRefetch ==
  [][\A i \in DOMAIN loads :
       LoadFail(i) =>
         /\ mem' = mem
         /\ localStorage' = localStorage
         /\ ~ServedFromCache(mem', localStorage', clock', loads[i])]_vars

\* C17 amended: when the forecast fetch of a load fails, nothing is rendered or
\* caught (the view, the session and the alert stay as they were), and the map and
\* the store are left exactly as they were; so the next load for the same key
\* issues a new network request unless the cache holds a payload that another
\* fetch for that key has stored (then the failure does not remove it either).
C17_FailureLeavesCache ==
  [][\A i \in DOMAIN loads :
       LoadFail(i) =>
         /\ mem' = mem
         /\ localStorage' = localStorage
         /\ view' = view /\ state' = state /\ alert' = alert
         /\ ServedFromCache(mem', localStorage', clock', loads[i])
              = ServedFromCache(mem, localStorage, clock, loads[i])
         /\ (/\ loads[i].key \notin DOMAIN mem
             /\ \/ localStorage[loads[i].key] = NoItem
                \/ localStorage[loads[i].key].exp <= clock)
            => ~ServedFromCache(mem', localStorage', clock', loads[i])]_vars

\* C17's case: the fetch of the load started last has failed (no load is in
\* flight and the skeleton is still shown), the cache holds nothing under its key,
\* and a load for the same key would issue a network request
C17_Witness ==
  /\ loads = <<>>
  /\ view.body = "skeleton"
  /\ ForecastKey(state.lat, state.lon, state.units) \notin DOMAIN mem
  /\ localStorage[ForecastKey(state.lat, state.lon, state.units)] = NoItem
  /\ ~forecast(mem, localStorage, clock, state.lat, state.lon, state.units).cached

\* C18: whenever no forecast fetch is in flight and a populated view is shown,
\* the view agrees with the session: the rendered payload was fetched for the
\* session's coordinates (up to the 2 decimals of the cache key) under the
\* session's unit system, and the place label and the unit labels are the
\* session's.
C18_ViewMatchesSession ==
  (loads = <<>> /\ view.body = "rendered")
  => /\ toFixed2(view.data.lat) = toFixed2(state.lat)
     /\ toFixed2(view.data.lon) = toFixed2(state.lon)
     /\ view.data.tu = TempUnit(state.units)
     /\ view.place = state.place
     /\ view.windUnit = WindLabel(state.units)
     /\ view.unitText = UnitLabel(state.units)

\* C19: whenever the suggestion list is visible and no geocode lookup is in
\* flight, its entries are the results of the most recently issued geocode query:
\* the answer of an older lookup never replaces the newer results and never
\* shows again a list that the newer lookup has hidden.
C19_ListOfLatestQuery ==
  (suggest.display = "block" /\ lookups = <<>> /\ geoLog # <<>>)
  => suggest.items = ServerResults(Last(geoLog).text)

====
